---- MODULE Spec2Model ----
(***************************************************************************)
(* PageReader (be/src/formats/parquet/page_reader.cpp): a sequential       *)
(* reader of parquet page headers and page payloads over a byte region of  *)
(* a seekable stream.                                                       *)
(*                                                                         *)
(* The reader's fields are the variables offset, next_header_pos,          *)
(* finish_offset and cur_header.  The stream, the thrift decoder and the   *)
(* configuration are the environment: the stream's calls are recorded in   *)
(* io, the bytes found at the cursor are drawn when next_header() starts   *)
(* (content), and every stream call may fail.                              *)
(*                                                                         *)
(* uint64_t / size_t arithmetic is arithmetic modulo U64.  TLC's integers  *)
(* are 32 bits wide, so the word is scaled down to WordBits bits; every    *)
(* size the model draws is stated relative to U64 (U64 - 1 is SIZE_MAX).   *)
(***************************************************************************)
EXTENDS Integers, Sequences, FiniteSets, TLC

VARIABLES
    start_offset,     \* constructor argument start_offset
    length,           \* constructor argument length
    finish_offset,    \* PageReader::_finish_offset
    max_header_size,  \* config::parquet_header_max_size
    offset,           \* PageReader::_offset
    next_header_pos,  \* PageReader::_next_header_pos
    cur_header,       \* PageReader::_cur_header
    pc,               \* "idle" | "trial" (inside next_header's loop) | "crashed"
    nbytes,           \* next_header's local nbytes
    content,          \* the header encoded at offset in the stream, or NoHeader
    io,               \* stream calls issued by the current / the last call
    pre,              \* the reader's fields when the current / last call started
    last,             \* the last call that returned: op, status, size
    page,             \* payload accounting since the last decoded header
    pages,            \* headers decoded so far
    ops,              \* payload calls accepted since the last decoded header
    cache_lock,       \* HdfsFsCache::_lock: the thread holding it, or NoThread
    cache,            \* HdfsFsCache::_cache: cache key -> handle (NoHandle: absent)
    thread,           \* per thread: position in get_connection, arguments, locals, result
    conn,             \* per cache key: connections attempted / made / failed
    ncalls            \* get_connection calls started

\* the fields and the environment of the PageReader
rvars == <<start_offset, length, finish_offset, max_header_size, offset, next_header_pos,
           cur_header, pc, nbytes, content, io, pre, last, page, pages, ops>>

\* the fields and the callers of the HdfsFsCache
cvars == <<cache_lock, cache, thread, conn, ncalls>>

vars == <<start_offset, length, finish_offset, max_header_size, offset, next_header_pos,
          cur_header, pc, nbytes, content, io, pre, last, page, pages, ops,
          cache_lock, cache, thread, conn, ncalls>>

----------------------------------------------------------------------------
\* Bounds of the model.

WordBits == 20
MaxPages == 2
MaxOps == 2
MaxCalls == 3

\* 2^64 scaled to WordBits bits
U64 == 2 ^ WordBits

\* Program constant.
kHeaderInitSize == 1024

\* Inputs.
\* Regions handed to the constructor: <<start_offset, length>>
Regions == {<<0, 20>>, <<0, 100>>, <<0, 3000>>, <<0, 70000>>, <<40, 100>>}
HeaderMaxSizes == {512, 2000, 16384}
HeaderLengths == {20, 1500, 5000}
\* compressed_page_size is a signed 32-bit field of the decoded header
PageSizes == {-5, 0, 50, 200}

NoHeader == [len |-> 0, compressed_page_size |-> 0]
\* Headers the stream may hold at the cursor: short ones with every payload
\* size, long ones (longer than the first trial) with an ordinary payload.
Headers ==
    [len : {20}, compressed_page_size : PageSizes]
        \cup [len : HeaderLengths \ {20}, compressed_page_size : {50}]

Min(a, b) == IF a < b THEN a ELSE b

\* uint64_t addition
Add64(a, b) == (a + b) % U64

\* conversion of a signed 32-bit value to uint64_t
ToU64(v) == v % U64

----------------------------------------------------------------------------
\* The decoder (deserialize_thrift_msg over the compact protocol): the header
\* encoded at the cursor occupies content.len bytes; a buffer that holds fewer
\* bytes, or bytes that encode no header, fails to decode.

DecodeOk(c, n) == c.len > 0 /\ c.len <= n

\* What a failed decode leaves in the out-parameter &_cur_header: the struct
\* is handed to the decoder before the outcome is known.
DecodeFailureLeaves(cur) ==
    {cur, [state |-> "partial", compressed_page_size |-> cur.compressed_page_size]}

DecodedHeader(c) == [state |-> "full", compressed_page_size |-> c.compressed_page_size]

----------------------------------------------------------------------------
\* HdfsFsCache (runtime/hdfs/hdfs_fs_cache).  Strings are
\* sequences of characters; FSOptions is reduced to what get_connection and
\* create_hdfs_fs_handle read: the user name of the hdfs properties (if set)
\* and the cloud configuration's type and properties.

Threads == {1, 2}
NoThread == 0

Str1(a) == <<a>>
Str2(a, b) == <<a, b>>

Opt(nn, set, user, type, props) ==
    [namenode |-> nn, user_set |-> set, hdfs_username |-> user,
     cloud_type |-> type, cloud_properties |-> props]

Prop(k, v) == [key |-> k, value |-> v]

\* Requests the callers make: <namenode, options>.
Requests ==
    { Opt(Str1("n"), FALSE, <<>>, "NONE", <<>>),
      Opt(Str1("n"), TRUE, Str1("1"), "NONE", <<>>),
      Opt(Str2("n", "1"), FALSE, <<>>, "NONE", <<>>),
      Opt(Str1("n"), FALSE, <<>>, "AZURE", <<Prop(Str1("k"), Str2("v", "w"))>>),
      Opt(Str1("n"), FALSE, <<>>, "AZURE", <<Prop(Str2("k", "v"), Str1("w"))>>),
      Opt(Str1("n"), FALSE, <<>>, "AWS", <<Prop(Str1("k"), Str1("v"))>>) }

\* get_azure_cloud_properties: the properties of an AZURE configuration,
\* nothing (nullptr) otherwise
AzureCloudProperties(o) ==
    IF o.cloud_type = "AZURE" THEN o.cloud_properties ELSE <<>>

RECURSIVE ConcatProps(_)
\* cache_key += cloud_property.key; cache_key += cloud_property.value
ConcatProps(props) ==
    IF props = <<>> THEN <<>>
    ELSE Head(props).key \o Head(props).value \o ConcatProps(Tail(props))

\* cache_key = namenode [+ hdfs_username] [+ every azure key and value]
CacheKey(o) ==
    o.namenode
        \o (IF o.user_set THEN o.hdfs_username ELSE <<>>)
        \o ConcatProps(AzureCloudProperties(o))

Keys == {CacheKey(o) : o \in Requests}

\* What create_hdfs_fs_handle configures the connection with: the namenode,
\* the user name (if set) and the azure properties.
ConnectedAs(o) ==
    <<o.namenode, o.user_set, IF o.user_set THEN o.hdfs_username ELSE <<>>,
      AzureCloudProperties(o)>>

\* HdfsFsHandle: namenode and hdfs_fs (0: nullptr); made_for records what the
\* connection behind hdfs_fs was configured with.
NoHandle == [namenode |-> <<>>, hdfs_fs |-> 0, made_for |-> <<>>]

IdleThread ==
    [pc |-> "idle", options |-> Opt(<<>>, FALSE, <<>>, "NONE", <<>>), key |-> <<>>,
     handle |-> NoHandle, status |-> "none"]

\* A newly built cache: unlocked and empty, nobody calling.
CacheStart ==
    /\ cache_lock = NoThread
    /\ cache = [k \in Keys |-> NoHandle]
    /\ thread = [t \in Threads |-> IdleThread]
    /\ conn = [k \in Keys |-> [attempted |-> 0, made |-> 0, failed |-> 0]]
    /\ ncalls = 0

----------------------------------------------------------------------------
\* PageReader::PageReader.  The mem-initializer list sets _stream and
\* _finish_offset only; _offset and _next_header_pos keep their in-class
\* default (zero).

FinishOffset(start, len) == Add64(start, len)

Init ==
    /\ \E r \in Regions :
         /\ start_offset = r[1]
         /\ length = r[2]
         /\ finish_offset = FinishOffset(r[1], r[2])
    /\ max_header_size \in HeaderMaxSizes
    /\ offset = 0
    /\ next_header_pos = 0
    /\ cur_header = [state |-> "none", compressed_page_size |-> 0]
    /\ pc = "idle"
    /\ nbytes = 0
    /\ content = NoHeader
    /\ io = <<>>
    /\ pre = [offset |-> 0, next_header_pos |-> 0, consumed |-> 0,
              cur_header |-> [state |-> "none", compressed_page_size |-> 0]]
    /\ last = [op |-> "construct", status |-> "OK", size |-> 0]
    /\ page = [active |-> FALSE, P |-> 0, consumed |-> 0]
    /\ pages = 0
    /\ ops = 0
    /\ CacheStart

Snapshot == [offset |-> offset, next_header_pos |-> next_header_pos,
             consumed |-> page.consumed, cur_header |-> cur_header]

----------------------------------------------------------------------------
\* The bounds check shared by read_bytes, skip_bytes and peek:
\*     if (_offset + size > _next_header_pos) return InternalError

ExceedsPage(off, size, nhp) == Add64(off, size) > nhp

\* Sizes a caller passes: nothing, one byte, exactly the remaining payload,
\* one byte more, and SIZE_MAX.
PayloadSizes ==
    {0, 1, (next_header_pos - offset) % U64,
     (next_header_pos - offset + 1) % U64, U64 - 1}

Reject(op, size) ==
    /\ last' = [op |-> op, status |-> "InternalError", size |-> size]
    /\ pre' = Snapshot
    /\ io' = <<>>
    /\ UNCHANGED <<cvars, start_offset, length, finish_offset, max_header_size, offset,
                   next_header_pos, cur_header, pc, nbytes, content, page, pages, ops>>

Advance(op, size, calls) ==
    /\ offset' = Add64(offset, size)
    /\ last' = [op |-> op, status |-> "OK", size |-> size]
    /\ pre' = Snapshot
    /\ io' = calls
    /\ page' = [page EXCEPT !.consumed = @ + size]
    /\ ops' = ops + 1
    /\ UNCHANGED <<cvars, start_offset, length, finish_offset, max_header_size,
                   next_header_pos, cur_header, pc, nbytes, content, pages>>

\* a failed stream call after which the cursor has moved all the same
IOFailAdvances(op, size, calls) ==
    /\ offset' = Add64(offset, size)
    /\ last' = [op |-> op, status |-> "IOError", size |-> size]
    /\ pre' = Snapshot
    /\ io' = calls
    /\ UNCHANGED <<cvars, start_offset, length, finish_offset, max_header_size,
                   next_header_pos, cur_header, pc, nbytes, content, page, pages, ops>>

IOFail(op, size, calls) ==
    /\ last' = [op |-> op, status |-> "IOError", size |-> size]
    /\ pre' = Snapshot
    /\ io' = calls
    /\ UNCHANGED <<cvars, start_offset, length, finish_offset, max_header_size, offset,
                   next_header_pos, cur_header, pc, nbytes, content, page, pages, ops>>

ReadAt(off, len) == [call |-> "read_at_fully", off |-> off, len |-> len]
SeekTo(off) == [call |-> "seek", off |-> off, len |-> 0]
PeekLen(len) == [call |-> "peek", off |-> 0, len |-> len]

\* PageReader::read_bytes
ReadBytes ==
    /\ pc = "idle"
    /\ ops < MaxOps
    /\ \E size \in PayloadSizes :
         IF ExceedsPage(offset, size, next_header_pos)
         THEN Reject("read_bytes", size)
         ELSE \E ok \in BOOLEAN :
                IF ok THEN Advance("read_bytes", size, <<ReadAt(offset, size)>>)
                      ELSE IOFail("read_bytes", size, <<ReadAt(offset, size)>>)

\* a skip that repositions the stream as it moves the cursor
SkipBytesSeeks ==
    /\ pc = "idle"
    /\ ops < MaxOps
    /\ \E size \in PayloadSizes :
         IF ExceedsPage(offset, size, next_header_pos)
         THEN Reject("skip_bytes", size)
         ELSE Advance("skip_bytes", size, <<SeekTo(Add64(offset, size))>>)

\* PageReader::skip_bytes
SkipBytes ==
    /\ pc = "idle"
    /\ ops < MaxOps
    /\ \E size \in PayloadSizes :
         IF ExceedsPage(offset, size, next_header_pos)
         THEN Reject("skip_bytes", size)
         ELSE Advance("skip_bytes", size, <<>>)

\* a peek that moves the cursor before it knows the stream's answer
PeekAdvancesBeforeIO ==
    /\ pc = "idle"
    /\ ops < MaxOps
    /\ \E size \in PayloadSizes :
         IF ExceedsPage(offset, size, next_header_pos)
         THEN Reject("peek", size)
         ELSE \E ok \in BOOLEAN :
                IF ok THEN Advance("peek", size, <<SeekTo(offset), PeekLen(size)>>)
                      ELSE /\ offset' = Add64(offset, size)
                           /\ last' = [op |-> "peek", status |-> "IOError", size |-> size]
                           /\ pre' = Snapshot
                           /\ io' = <<SeekTo(offset), PeekLen(size)>>
                           /\ UNCHANGED <<cvars, start_offset, length, finish_offset,
                                          max_header_size, next_header_pos, cur_header,
                                          pc, nbytes, content, page, pages, ops>>

\* PageReader::peek
Peek ==
    /\ pc = "idle"
    /\ ops < MaxOps
    /\ \E size \in PayloadSizes :
         IF ExceedsPage(offset, size, next_header_pos)
         THEN Reject("peek", size)
         ELSE \E ok \in BOOLEAN :
                IF ok THEN Advance("peek", size, <<SeekTo(offset), PeekLen(size)>>)
                      ELSE IOFail("peek", size, <<SeekTo(offset), PeekLen(size)>>)

----------------------------------------------------------------------------
\* PageReader::next_header, entry: the position check, the end-of-data check,
\* then the locals of the decode loop (nbytes = kHeaderInitSize).

Return(status, hlen) ==
    /\ last' = [op |-> "next_header", status |-> status, size |-> hlen]
    /\ pc' = "idle"

\* a position check that only catches a cursor beyond the boundary
WrongPositionOnlyBeyond(off, nhp) == off > nhp

WrongPosition(off, nhp) == off # nhp

\* an end-of-data check that misses the cursor sitting exactly on the end
AtEndStrict(off, finish) == off > finish

AtEnd(off, finish) == off >= finish

NextHeaderCall ==
    /\ pc = "idle"
    /\ pre' = Snapshot
    /\ io' = <<>>
    /\ page' = [page EXCEPT !.active = FALSE]
    /\ IF WrongPosition(offset, next_header_pos)
       THEN /\ Return("InternalError", 0)
            /\ UNCHANGED <<nbytes, content>>
       ELSE IF AtEnd(offset, finish_offset)
       THEN /\ Return("EndOfFile", 0)
            /\ UNCHANGED <<nbytes, content>>
       ELSE /\ pages < MaxPages
            /\ pc' = "trial"
            /\ nbytes' = kHeaderInitSize
            /\ content' \in Headers \cup {NoHeader}
            /\ UNCHANGED last
    /\ UNCHANGED <<cvars, start_offset, length, finish_offset, max_header_size, offset,
                   next_header_pos, cur_header, pages, ops>>

\* size_t remaining = _finish_offset - _offset
Remaining == (finish_offset - offset) % U64

\* nbytes = std::min(nbytes, remaining).  header_length (uint32_t) takes this
\* value; a trial is at most four times a size that passed the test against
\* the int32 maximum, so the regions drawn here never truncate it.
TrialSize == Min(nbytes, Remaining)

\* page_buffer.reserve(config::parquet_header_max_size): the read of a trial
\* writes TrialSize bytes into a buffer of that capacity.
Overruns(n, capacity) == n > capacity

\* if ((nbytes > config::parquet_header_max_size) || (_offset + nbytes) >= _finish_offset)
GiveUp(n, max, off, finish) == n > max \/ Add64(off, n) >= finish

\* a trial size that is doubled instead of quadrupled
GrowDouble(n) == (n * 2) % U64

\* nbytes <<= 2
Grow(n) == (n * 4) % U64

\* a cursor advanced by the bytes read instead of the bytes the header took
AfterHeaderWholeBuffer(off, hlen) == Add64(off, TrialSize)

\* _offset += header_length
AfterHeader(off, hlen) == Add64(off, hlen)

\* _next_header_pos = _offset + _cur_header.compressed_page_size
NextHeaderPos(off, cps) == Add64(off, ToU64(cps))

\* One pass of the do-while loop: clamp, read, decode, then break, give up or
\* grow.  A read longer than the reserved capacity writes past the buffer:
\* the process may die there or carry on.
NextHeaderTrial ==
    /\ pc = "trial"
    /\ LET n == TrialSize IN
       /\ io' = Append(io, ReadAt(offset, n))
       /\ \/ /\ Overruns(n, max_header_size)
             /\ pc' = "crashed"
             /\ UNCHANGED <<offset, next_header_pos, cur_header, nbytes, last,
                            page, pages, ops>>
          \/ /\ Return("IOError", 0)
             /\ UNCHANGED <<offset, next_header_pos, cur_header, nbytes,
                            page, pages, ops>>
          \/ /\ DecodeOk(content, n)
             /\ cur_header' = DecodedHeader(content)
             /\ offset' = AfterHeader(offset, content.len)
             /\ next_header_pos' = NextHeaderPos(offset', cur_header'.compressed_page_size)
             /\ Return("OK", content.len)
             /\ page' = [active |-> TRUE, P |-> content.compressed_page_size,
                         consumed |-> 0]
             /\ pages' = pages + 1
             /\ ops' = 0
             /\ UNCHANGED nbytes
          \/ /\ ~DecodeOk(content, n)
             /\ cur_header' \in DecodeFailureLeaves(cur_header)
             /\ IF GiveUp(n, max_header_size, offset, finish_offset)
                THEN /\ Return("Corruption", 0)
                     /\ UNCHANGED nbytes
                ELSE /\ nbytes' = Grow(n)
                     /\ UNCHANGED <<pc, last>>
             /\ UNCHANGED <<offset, next_header_pos, page, pages, ops>>
    /\ UNCHANGED <<cvars, start_offset, length, finish_offset, max_header_size, content, pre>>

----------------------------------------------------------------------------
Next == NextHeaderCall \/ NextHeaderTrial \/ ReadBytes \/ SkipBytes \/ Peek

Spec == Init /\ [][Next]_vars

\* A call that has entered the decode loop keeps running.
FairSpec == Spec /\ WF_vars(NextHeaderTrial)

----------------------------------------------------------------------------
\* HdfsFsCache::get_connection, one action per step of a calling thread.

\* a lock that never makes a caller wait
LockNeverHeld(holder) == TRUE

\* std::lock_guard<std::mutex> l(_lock) can be entered
LockFree(holder) == holder = NoThread

\* The call starts: the lock is taken and the cache key is built.
GetConnectionLock(t) ==
    /\ thread[t].pc = "idle"
    /\ ncalls < MaxCalls
    /\ LockFree(cache_lock)
    /\ \E o \in Requests :
         thread' = [thread EXCEPT ![t] =
                       [pc |-> "locked", options |-> o, key |-> CacheKey(o),
                        handle |-> NoHandle, status |-> "none"]]
    /\ cache_lock' = t
    /\ ncalls' = ncalls + 1
    /\ UNCHANGED <<cache, conn, rvars>>

\* _cache.find(cache_key): a hit copies the cached handle to the caller, a
\* miss sets handle->namenode and goes on to connect.
GetConnectionFind(t) ==
    /\ thread[t].pc = "locked"
    /\ IF cache[thread[t].key] # NoHandle
       THEN thread' = [thread EXCEPT ![t].handle = cache[thread[t].key],
                                     ![t].pc = "unlock"]
       ELSE thread' = [thread EXCEPT ![t].handle.namenode = thread[t].options.namenode,
                                     ![t].pc = "connect"]
    /\ UNCHANGED <<cache_lock, cache, conn, ncalls, rvars>>

\* the handle ids of the connections made so far
FsInUse == {cache[k].hdfs_fs : k \in Keys} \cup {thread[t].handle.hdfs_fs : t \in Threads}

\* create_hdfs_fs_handle: hdfsBuilderConnect returns a connection or nullptr;
\* nullptr makes get_connection return the error (the guard unlocks).
CreateHdfsFsHandle(t) ==
    /\ thread[t].pc = "connect"
    /\ LET k == thread[t].key IN
       \/ /\ thread' = [thread EXCEPT
                           ![t].handle.hdfs_fs = 1 + Cardinality(FsInUse \ {0}),
                           ![t].handle.made_for = ConnectedAs(thread[t].options),
                           ![t].pc = "insert"]
          /\ conn' = [conn EXCEPT ![k].attempted = @ + 1, ![k].made = @ + 1]
          /\ UNCHANGED cache_lock
       \/ /\ thread' = [thread EXCEPT ![t].status = "InternalError", ![t].pc = "idle"]
          /\ conn' = [conn EXCEPT ![k].attempted = @ + 1, ![k].failed = @ + 1]
          /\ cache_lock' = IF cache_lock = t THEN NoThread ELSE cache_lock
    /\ UNCHANGED <<cache, ncalls, rvars>>

\* _cache[cache_key] = *handle
CacheInsert(t) ==
    /\ thread[t].pc = "insert"
    /\ cache' = [cache EXCEPT ![thread[t].key] = thread[t].handle]
    /\ thread' = [thread EXCEPT ![t].pc = "unlock"]
    /\ UNCHANGED <<cache_lock, conn, ncalls, rvars>>

\* the end of the guarded block, return Status::OK()
GetConnectionReturn(t) ==
    /\ thread[t].pc = "unlock"
    /\ cache_lock' = IF cache_lock = t THEN NoThread ELSE cache_lock
    /\ thread' = [thread EXCEPT ![t].status = "OK", ![t].pc = "idle"]
    /\ UNCHANGED <<cache, conn, ncalls, rvars>>

\* One reader stands by while the threads use the cache.
CacheInit == Init /\ start_offset = 0 /\ length = 100 /\ max_header_size = 16384

CacheNext ==
    \E t \in Threads :
        \/ GetConnectionLock(t)
        \/ GetConnectionFind(t)
        \/ CreateHdfsFsHandle(t)
        \/ CacheInsert(t)
        \/ GetConnectionReturn(t)

CacheSpec == CacheInit /\ [][CacheNext]_vars

----------------------------------------------------------------------------
\* Vocabulary of the properties.

PayloadOps == {"read_bytes", "skip_bytes", "peek"}

\* the last call was a payload call and it has returned
PayloadReturned == pc = "idle" /\ last.op \in PayloadOps

\* the last call was next_header() and it has returned
HeaderReturned == pc = "idle" /\ last.op = "next_header"

\* next_header() went through its decode loop: content is what it looked at
DecodeReturned == HeaderReturned /\ last.status \in {"OK", "Corruption", "IOError"}

\* next_header() is in its decode loop, died in it, or has returned from it
DecodeStarted == pc \in {"trial", "crashed"} \/ DecodeReturned

----------------------------------------------------------------------------
\* C1: after a header with compressed_page_size = P has been decoded, a
\* payload call of size s (whose stream call does not fail) succeeds exactly
\* when the sizes consumed since that header plus s do not exceed P.
C1_AcceptedIffWithinPayload ==
    (PayloadReturned /\ page.active /\ last.status # "IOError")
        => ((last.status = "OK") <=> (pre.consumed + last.size <= page.P))

\* C2: offset never decreases from one state to the next, and it changes
\* only in a call that returns success.
C2_CursorMonotone ==
    [][/\ offset' >= offset
       /\ (offset' # offset => (pc' = "idle" /\ last'.status = "OK"))]_vars

\* C3: next_header() called with offset # next_header_pos returns the
\* internal error, whether or not the cursor is at the end of the region,
\* issues no stream call, decodes nothing and moves nothing.
C3_WrongPositionRejected ==
    (HeaderReturned /\ pre.offset # pre.next_header_pos)
        => /\ last.status = "InternalError"
           /\ io = <<>>
           /\ cur_header = pre.cur_header
           /\ offset = pre.offset
           /\ next_header_pos = pre.next_header_pos

\* C3 witness: the call was made with the cursor off the boundary and at or
\* past the end of the region, and it was answered with the internal error.
C3_Witness ==
    /\ HeaderReturned
    /\ pre.offset # pre.next_header_pos
    /\ pre.offset >= finish_offset
    /\ last.status = "InternalError"

\* C4: next_header() called with offset = next_header_pos at or past the end
\* of the region returns end-of-data (not corruption), issues no stream
\* call and leaves offset and next_header_pos as they were.
C4_EndOfData ==
    (HeaderReturned /\ pre.offset = pre.next_header_pos /\ pre.offset >= finish_offset)
        => /\ last.status = "EndOfFile"
           /\ io = <<>>
           /\ offset = pre.offset
           /\ next_header_pos = pre.next_header_pos

\* C4 witness: a page was decoded, its payload consumed up to the end of the
\* region, and the next call answered end-of-data.
C4_Witness ==
    /\ HeaderReturned
    /\ last.status = "EndOfFile"
    /\ pages > 0
    /\ offset = finish_offset
    /\ page.consumed > 0

----------------------------------------------------------------------------
\* C5: a header longer than the first trial, no longer than the configured
\* maximum and lying inside the region is decoded: next_header() returns
\* success (barring a stream failure), never corruption, the cursor advances
\* by exactly the header's length and the header is stored as current.
C5_GrowthSucceeds ==
    (/\ DecodeStarted
     /\ content.len > kHeaderInitSize
     /\ content.len <= max_header_size
     /\ pre.offset + content.len <= finish_offset)
        => /\ pc # "crashed"
           /\ (DecodeReturned /\ last.status # "IOError")
                => /\ last.status = "OK"
                   /\ last.size = content.len
                   /\ offset = pre.offset + content.len
                   /\ cur_header = DecodedHeader(content)

\* C6: a next_header() call that has entered its decode loop eventually
\* returns (success, corruption or an I/O error).  Checked under FairSpec: the
\* only state in which a started call never returns is the one where the
\* process died writing a trial past the decode buffer.
C6_LoopTerminates == (pc = "trial") ~> (pc = "idle")

\* C7: a peek whose stream call fails leaves offset and next_header_pos as
\* they were and stays acceptable to the bounds check; repeated with the same
\* size it is not rejected, and if the stream then succeeds the cursor
\* advances by that size once.
C7_PeekFailureKeepsCursor ==
    [][/\ (pc = "idle" /\ pc' = "idle" /\ last'.op = "peek" /\ last'.status = "IOError")
            => /\ offset' = offset
               /\ next_header_pos' = next_header_pos
               /\ ~ExceedsPage(offset', last'.size, next_header_pos')
       /\ (/\ PayloadReturned /\ last.op = "peek" /\ last.status = "IOError"
           /\ pc' = "idle" /\ last'.op = "peek" /\ last'.size = last.size)
            => /\ last'.status # "InternalError"
               /\ last'.status = "OK"
                    => /\ offset' = Add64(offset, last.size)
                       /\ page'.consumed = page.consumed + last.size]_vars

\* C7 witness: a peek of a positive size passed the bounds check and failed
\* in the stream (after the seek), and the cursor is where it was.
C7_Witness ==
    /\ PayloadReturned
    /\ last.op = "peek"
    /\ last.status = "IOError"
    /\ last.size > 0
    /\ offset = pre.offset
    /\ io = <<SeekTo(offset), PeekLen(last.size)>>

\* C8: no accepted payload call moves the cursor past finish_offset, whatever
\* compressed_page_size the decoded header declares.
C8_RegionConfinement ==
    (PayloadReturned /\ last.status = "OK") => offset <= finish_offset

\* C9: right after construction offset and next_header_pos equal
\* start_offset and finish_offset equals start_offset + length, and the
\* first header is read at start_offset.
C9_InitialState ==
    (last.op = "construct")
        => /\ offset = start_offset
           /\ next_header_pos = start_offset
           /\ finish_offset = start_offset + length
           /\ (io # <<>> => io[1].off = start_offset)

\* C10: a successful next_header() advances offset by the length H the
\* decoder reports, sets next_header_pos to the new offset plus the decoded
\* compressed_page_size (in uint64_t arithmetic) and stores the decoded
\* header; on region [0,100) with a 20-byte header declaring 50 bytes this
\* gives offset 20 and next_header_pos 70, read_bytes(50) gives offset 70, and
\* the next next_header() finds no header in the last 30 bytes and returns
\* corruption.
C10_HeaderEffect ==
    /\ (HeaderReturned /\ last.status = "OK")
         => /\ last.size = content.len
            /\ offset = Add64(pre.offset, last.size)
            /\ next_header_pos = Add64(offset, ToU64(content.compressed_page_size))
            /\ cur_header = DecodedHeader(content)
    /\ (/\ start_offset = 0 /\ length = 100
        /\ HeaderReturned /\ last.status = "OK" /\ pre.offset = 0
        /\ content = [len |-> 20, compressed_page_size |-> 50])
         => (offset = 20 /\ next_header_pos = 70)
    /\ (/\ PayloadReturned /\ last.op = "read_bytes" /\ last.size = 50
        /\ last.status = "OK" /\ pre.offset = 20 /\ pre.next_header_pos = 70)
         => offset = 70
    /\ (/\ start_offset = 0 /\ length = 100
        /\ DecodeReturned /\ pre.offset = 70 /\ pre.next_header_pos = 70
        /\ content = NoHeader /\ last.status # "IOError")
         => last.status = "Corruption"

\* C10 witness: the end of that scenario, one page decoded and consumed and
\* the second next_header() answered with corruption at offset 70.
C10_Witness ==
    /\ start_offset = 0 /\ length = 100
    /\ DecodeReturned
    /\ last.status = "Corruption"
    /\ pages = 1
    /\ offset = 70
    /\ next_header_pos = 70
    /\ io = <<ReadAt(70, 30)>>

----------------------------------------------------------------------------
\* C11: when read_at_fully fails in read_bytes or in a trial of
\* next_header(), the call returns the I/O error with offset and
\* next_header_pos as they were, and the failed read is its last stream call:
\* read_bytes has issued that one read, next_header() has issued its trials
\* up to the failed one, whose size is the trial size it returns with (not
\* grown, not read again).
C11_IOFailurePropagates ==
    /\ (PayloadReturned /\ last.op = "read_bytes" /\ last.status = "IOError")
         => /\ offset = pre.offset
            /\ next_header_pos = pre.next_header_pos
            /\ io = <<ReadAt(pre.offset, last.size)>>
    /\ (HeaderReturned /\ last.status = "IOError")
         => /\ offset = pre.offset
            /\ next_header_pos = pre.next_header_pos
            /\ Len(io) >= 1
            /\ io[Len(io)] = ReadAt(pre.offset, Min(nbytes, finish_offset - pre.offset))
            /\ \A k \in 1..(Len(io) - 1) : io[k].len < io[Len(io)].len

\* C11 witness: the second trial of a next_header() call failed in the
\* stream.
C11_Witness ==
    /\ HeaderReturned
    /\ last.status = "IOError"
    /\ Len(io) = 2
    /\ offset = pre.offset

\* C12: a skip_bytes that passes the bounds check adds size to offset (in
\* uint64_t arithmetic) and does nothing else: no stream call, and
\* next_header_pos, finish_offset and the current header stay as they were;
\* a skip_bytes that fails the bounds check changes nothing.  skip_bytes has
\* no other outcome.
C12_SkipOnlyMovesCursor ==
    (PayloadReturned /\ last.op = "skip_bytes")
        => /\ io = <<>>
           /\ next_header_pos = pre.next_header_pos
           /\ cur_header = pre.cur_header
           /\ finish_offset = Add64(start_offset, length)
           /\ last.status \in {"OK", "InternalError"}
           /\ (last.status = "OK") <=> ~ExceedsPage(pre.offset, last.size, pre.next_header_pos)
           /\ last.status = "OK" => offset = Add64(pre.offset, last.size)
           /\ last.status = "InternalError" => offset = pre.offset

\* C12 witness: a skip of a positive size was accepted and moved the cursor
\* to the boundary of the page.
C12_Witness ==
    /\ PayloadReturned
    /\ last.op = "skip_bytes"
    /\ last.status = "OK"
    /\ last.size > 0
    /\ offset = pre.offset + last.size
    /\ offset = next_header_pos

----------------------------------------------------------------------------
\* the length of the k-th trial (k = 0, 1, ...) of the call in progress
TrialLen(k) == Min(kHeaderInitSize * 4 ^ k, finish_offset - pre.offset)

\* C13: within one next_header() call the k-th stream read (k = 0, 1, ...)
\* starts at offset and has length min(1024 * 4^k, finish_offset - offset),
\* so no header read extends past finish_offset; a call returns corruption
\* only after a trial whose size exceeds the configured maximum or reaches
\* the end of the region, and it goes on to another trial only after one
\* that does neither, with four times that size.
C13_TrialSchedule ==
    DecodeStarted
        => /\ \A k \in 1..Len(io) :
                /\ io[k] = ReadAt(pre.offset, TrialLen(k - 1))
                /\ io[k].off + io[k].len <= finish_offset
           /\ (DecodeReturned /\ last.status = "Corruption")
                => /\ Len(io) >= 1
                   /\ ~DecodeOk(content, io[Len(io)].len)
                   /\ \/ io[Len(io)].len > max_header_size
                      \/ pre.offset + io[Len(io)].len >= finish_offset
           /\ (pc = "trial" /\ Len(io) >= 1)
                => /\ ~DecodeOk(content, io[Len(io)].len)
                   /\ io[Len(io)].len <= max_header_size
                   /\ pre.offset + io[Len(io)].len < finish_offset
                   /\ nbytes = 4 * io[Len(io)].len

\* C13 witness: corruption returned after the fourth trial (1024, 4096,
\* 16384 and 65536 bytes) of a region that holds no header.
C13_Witness ==
    /\ DecodeReturned
    /\ last.status = "Corruption"
    /\ Len(io) = 4
    /\ io[4].len = 65536
    /\ max_header_size = 16384

----------------------------------------------------------------------------
\* the header value most recently decoded with success (the default-built
\* header before any)
LastDecoded ==
    IF pages = 0
    THEN [state |-> "none", compressed_page_size |-> 0]
    ELSE [state |-> "full", compressed_page_size |-> page.P]

\* C14: after a next_header() call that returns anything but success the
\* current header is still the header most recently decoded with success.
C14_HeaderKeptOnFailure ==
    (HeaderReturned /\ last.status # "OK") => cur_header = LastDecoded

----------------------------------------------------------------------------
\* C15: every read issued by next_header() asks for at most
\* parquet_header_max_size bytes, the capacity reserved for the decode
\* buffer.
C15_TrialWithinCapacity ==
    DecodeStarted => \A k \in 1..Len(io) : io[k].len <= max_header_size

\* C16: a payload call whose true sum offset + size exceeds next_header_pos
\* is rejected, also when the 64-bit sum wraps around; an accepted call
\* leaves offset no larger than next_header_pos and no smaller than before.
\* (Stated for calls made with the cursor at or before the boundary.)
C16_BoundsCheckOverflowSafe ==
    (/\ PayloadReturned /\ last.status # "InternalError"
     /\ pre.offset <= pre.next_header_pos)
        => /\ pre.offset + last.size <= pre.next_header_pos
           /\ offset <= next_header_pos
           /\ offset >= pre.offset

\* C17: in every reachable state offset <= next_header_pos, whatever
\* (signed) compressed_page_size the decoded header declares.
C17_CursorWithinBoundary == offset <= next_header_pos


\* the calls that have returned
Returned(t, st) == thread[t].pc = "idle" /\ thread[t].status = st

\* C18: under any interleaving of get_connection calls, at most one
\* connection is ever made per cache key, the cache holds an entry for a key
\* exactly when that connection was made, every call that has returned OK
\* holds the cached handle of its key, and a call only attempts a connection
\* while its key has no entry, so failed attempts (which insert nothing) are
\* followed by new attempts.
C18_OneConnectionPerKey ==
    /\ \A k \in Keys :
         /\ conn[k].made <= 1
         /\ conn[k].attempted = conn[k].made + conn[k].failed
         /\ conn[k].made = 0 => cache[k] = NoHandle
         /\ cache[k] # NoHandle => cache[k].hdfs_fs # 0
         /\ (conn[k].made = 1 /\ cache[k] = NoHandle)
                => \E t \in Threads : thread[t].pc = "insert" /\ thread[t].key = k
    /\ \A t \in Threads :
         /\ Returned(t, "OK") => thread[t].handle = cache[thread[t].key]
         /\ Returned(t, "InternalError") => thread[t].handle.hdfs_fs = 0
         /\ thread[t].pc = "connect" => cache[thread[t].key] = NoHandle

\* A failed attempt was retried, and both threads hold the one handle.
C18_Witness ==
    \E k \in Keys :
        /\ conn[k].failed >= 1
        /\ conn[k].made = 1
        /\ \A t \in Threads : Returned(t, "OK") /\ thread[t].key = k

\* C19: a call that returns OK receives a handle whose connection was made
\* for the caller's own namenode, user name and azure properties.
C19_KeySeparation ==
    \A t \in Threads :
        Returned(t, "OK") => thread[t].handle.made_for = ConnectedAs(thread[t].options)

====
